---- MODULE Spec2Model ----
(***************************************************************************)
(* State-machine model of unison-experience-renderer (src/src/main.py):    *)
(* the in-memory experience log, the broadcast queue and its SSE stream,   *)
(* the capability readiness endpoints, the speech-to-text, wake-word and   *)
(* payment-status proxies, and the script of the companion page: its audio *)
(* capture loop and its playback queue.  SpecThreads runs the handlers of  *)
(* the log statement by statement on the worker threads that serve them.   *)
(*                                                                         *)
(* A record of the experience log is modelled by its identity: the number  *)
(* of the record in creation order.  The history variable logged tells     *)
(* which operation created it.  The remaining fields of a record are       *)
(* opaque to the server and are not modelled.                              *)
(***************************************************************************)
EXTENDS Integers, Sequences, FiniteSets, TLC

VARIABLES
    started,            \* the startup hook has run
    experience_log,     \* _experience_log
    experience_queue,   \* _experience_queue (items not yet consumed)
    manifest,           \* _capability_client.manifest
    last_error,         \* _capability_client.last_error
    clients,            \* stream generators currently running
    request,            \* inputs of the request served last
    response,           \* response of the request served last
    outbound,           \* outbound HTTP calls made by the request served last
    logged,             \* history: the type of every record ever put in the log;
                        \* the record put i-th has id i
    enqueued,           \* history: the id of every record ever put on the queue, in order
    emitted,            \* history: every SSE event yielded, in order
    connectedAt,        \* history: number of records created when a connected client
                        \* connected (0 for a client that is not connected)
    everLoaded,         \* history: a refresh has fetched a manifest
    fallbackInjected,   \* history: ready() has installed the synthetic manifest
    mic,                \* the page's audio capture globals and the browser objects they hold
    hist,               \* history of the audio capture loop
    player,             \* the audio-slot element, playQueue, and their history
    threads             \* position of each worker thread in the handler it runs

vars == <<started, experience_log, experience_queue, manifest, last_error,
          clients, request, response, outbound, logged, enqueued, emitted,
          connectedAt, everLoaded, fallbackInjected, mic, hist, player,
          threads>>

logVars == <<experience_log, experience_queue, logged, enqueued>>
capVars == <<manifest, last_error, everLoaded, fallbackInjected>>
streamVars == <<clients, emitted, connectedAt>>
micVars == <<mic, hist>>
pageVars == <<mic, hist, player>>
serverVars == <<started, logVars, capVars, streamVars, request, response, outbound,
                threads>>

-----------------------------------------------------------------------------
(* Bounds of the model *)

MaxLogOps == 51         \* records created in a run of the log specification
MaxPayments == 1        \* payment records among them
MaxStreamOps == 3       \* records created in a run of the stream specification
NumClients == 1         \* stream clients
MaxDevices == 2         \* devices listed under one modality of a fetched manifest
MaxPayOps == 4          \* records created in a run of the payment specification
MaxClicks == 3          \* clicks on the mic toggle
MaxFrames == 11         \* frames analysed by the audio loop
MaxClips == 3           \* records with an audio reference that arrive
MaxPlays == 3           \* playbacks begun before the user stops using the controls
NumThreads == 2         \* worker threads serving requests at the same time
MaxWriters == 1         \* requests changing the log that are served at the same time
MaxThreadOps == 51      \* records created in a run of the thread specification
MaxWakeLen == 3         \* characters of a wake word served by the context service

-----------------------------------------------------------------------------
(* Program constants *)

experience_log_max == 50
QueueMaxsize == 0       \* asyncio.Queue() : unbounded
SeedCards == 3
DashboardCards == 10

default_person_id == "local-user"
DefaultSession == "default-session"

-----------------------------------------------------------------------------
(* Python values *)

Absent == [t |-> "absent"]
Null == [t |-> "null"]
Str(s) == [t |-> "str", v |-> s]
Num(n) == [t |-> "int", v |-> n]

\* Python truthiness of a JSON value (None, "", 0 are falsy)
Truthy(x) ==
    CASE x.t = "absent" -> FALSE
      [] x.t = "null" -> FALSE
      [] x.t = "str" -> x.v # ""
      [] x.t = "int" -> x.v # 0

\* dict.get(key): an absent key reads as None
Get(x) == IF x.t = "absent" THEN Null ELSE x

\* a or b
Or(a, b) == IF Truthy(a) THEN a ELSE b

Min(a, b) == IF a < b THEN a ELSE b

-----------------------------------------------------------------------------
(* Experience log *)

Created == Len(logged)

\* the record created next
NewRecord == Created + 1

\* the type of record r: "seed", "experience", "payment_approval", "payment_status"
TypeOf(r) == logged[r]

Payments == Cardinality({i \in 1..Len(logged) :
                logged[i] \in {"payment_approval", "payment_status"}})

\* list.insert(0, x)
InsertHead(log, x) == <<x>> \o log

\* del list[n:]
DelFrom(log, n) == SubSeq(log, 1, Min(Len(log), n))

\* list.pop(0)
PopFirst(log) == SubSeq(log, 2, Len(log))

\* asyncio.Queue.full()
QueueFull(q) == QueueMaxsize > 0 /\ Len(q) >= QueueMaxsize

\* try: queue.put_nowait(x) except Exception: pass
PutNowaitSwallow(q, x) == IF QueueFull(q) THEN q ELSE Append(q, x)

\* HTTP call to a sibling service, as seen by the caller
Call(method, service, path, json, headers, result) ==
    [method |-> method, service |-> service, path |-> path,
     json |-> json, headers |-> headers, result |-> result]

NoHeaders == [baton |-> Absent]

-----------------------------------------------------------------------------
(* Capability client (unison_common.multimodal.CapabilityClient) *)

ModalityNames == {"displays", "speakers"}

NoManifest == [kind |-> "none"]

\* a dict manifest: has_modalities tells whether the key "modalities" is
\* present, modalities maps the modality names present to their device lists
Manifest(hasMod, lists) ==
    [kind |-> "dict", has_modalities |-> hasMod, modalities |-> lists]

NoLists == [m \in {} |-> <<>>]

Device(i) == [id |-> i, name |-> "device"]

DeviceList(n) == [i \in 1..n |-> Device(i)]

\* the manifests the capability source may serve
FetchedManifests ==
    {Manifest(FALSE, NoLists)} \cup
    {Manifest(TRUE, lists) : lists \in
        UNION {[S -> {DeviceList(n) : n \in 0..MaxDevices}] : S \in SUBSET ModalityNames}}

FetchOutcomes ==
    {[ok |-> FALSE]} \cup {[ok |-> TRUE, manifest |-> m] : m \in FetchedManifests}

FallbackManifest ==
    Manifest(TRUE, [m \in {"displays"} |-> <<[id |-> "default", name |-> "fallback"]>>])

\* bool(manifest)
ManifestTruthy(m) == m.kind = "dict" /\ m.has_modalities

modality_count(m, name) ==
    IF m.kind = "none" THEN 0
    ELSE IF ~m.has_modalities THEN 0
    ELSE IF name \notin DOMAIN m.modalities THEN 0
    ELSE Len(m.modalities[name])

\* CapabilityClient.refresh(): the manifest and last_error it leaves
RefreshManifest(m, fetch) == IF fetch.ok THEN fetch.manifest ELSE m
RefreshError(err, fetch) == IF fetch.ok THEN "none" ELSE "fetch failed"

-----------------------------------------------------------------------------
(* Audio capture loop of the companion page: the script's globals *)

\* vadConfig; energies are in thousandths of full scale
VadStart == 20
VadStop == 10
MaxSilenceMs == 600
FrameMs == 80
vadConfig == [start |-> VadStart, stop |-> VadStop,
              maxSilenceMs |-> MaxSilenceMs, frameMs |-> FrameMs]

\* PORCUPINE_ENABLED: no access key is configured by default
PORCUPINE_ENABLED == FALSE

NoHandler == [set |-> FALSE, send |-> FALSE, chunks |-> <<>>]

\* the globals of the script, and the browser objects they refer to.
\* mediaRecorder is "null", or the state of the MediaRecorder it holds;
\* micStream is 0 for null, or the number of the stream it holds
MicInit ==
    [micStream |-> 0,
     mediaRecorder |-> "null",
     audioChunks |-> <<>>,
     analyser |-> FALSE,
     vadActive |-> FALSE,
     silenceMs |-> 0,
     onstop |-> NoHandler,      \* mediaRecorder.onstop
     recording |-> 0,           \* number of MediaRecorder objects created
     pendingMedia |-> 0,        \* getUserMedia() promises not yet settled
     acquired |-> 0,            \* microphone streams handed to the page
     open |-> {},               \* streams whose tracks have not been stopped
     loops |-> 0,               \* requestAnimationFrame(analyseLoop) callbacks pending
     submitted |-> <<>>]        \* calls of sendAudioBlob, in order: the recorder
                                \* that stopped and the chunks of the blob

\* if (send && chunks.length)
ShouldSendAny(send, chunks) == TRUE
ShouldSend(send, chunks) == send /\ Len(chunks) > 0

\* stopRecording(send): takes the copy of audioChunks, installs onstop and
\* calls stop(); stop() on a recorder that is not recording changes nothing
stopRecording(m, send) ==
    IF m.mediaRecorder = "null" THEN m
    ELSE [m EXCEPT !.onstop = [set |-> TRUE, send |-> send,
                               chunks |-> m.audioChunks],
                   !.mediaRecorder = "inactive"]

\* startRecording(): both callers test !mediaRecorder first
startRecording(m) ==
    IF m.micStream = 0 THEN m
    ELSE IF m.mediaRecorder = "recording" THEN m
    ELSE [m EXCEPT !.audioChunks = <<>>,
                   !.mediaRecorder = "recording",
                   !.onstop = NoHandler,
                   !.recording = @ + 1]

\* rms < vadConfig.stop
SilentBelowStart(rms) == rms < vadConfig.start
Silent(rms) == rms < vadConfig.stop

\* the energy branch of analyseLoop for a frame of energy rms
VadBranch(m, rms) ==
    IF m.mediaRecorder = "null" /\ rms > vadConfig.start
    THEN startRecording([m EXCEPT !.silenceMs = 0])
    ELSE IF m.mediaRecorder # "null"
    THEN IF Silent(rms)
         THEN IF m.silenceMs + vadConfig.frameMs >= vadConfig.maxSilenceMs
              THEN stopRecording(
                      [m EXCEPT !.silenceMs = @ + vadConfig.frameMs], TRUE)
              ELSE [m EXCEPT !.silenceMs = @ + vadConfig.frameMs]
         ELSE [m EXCEPT !.silenceMs = 0]
    ELSE m

\* the wake-word branch of analyseLoop; triggered is the detector's answer
WakeBranch(m, triggered) ==
    IF triggered /\ m.mediaRecorder = "null" THEN startRecording(m) ELSE m

\* analyseLoop() on a frame of energy rms
analyseLoop(m, rms, triggered) ==
    IF ~m.analyser \/ ~m.vadActive THEN m
    ELSE [WakeBranch(VadBranch(m, rms), triggered) EXCEPT !.loops = @ + 1]

\* stopMic()
stopMic(m) ==
    LET r == stopRecording([m EXCEPT !.vadActive = FALSE], FALSE)
    IN [r EXCEPT !.open = @ \ {m.micStream},
                 !.micStream = 0,
                 !.analyser = FALSE]

\* history of the loop: what happened last, how many clicks and frames there
\* were, and for the recording made last: whether a frame above the start
\* threshold was analysed, the run of silent frames analysed since the last
\* frame that was not silent, whether the wake-word branch started it, and
\* what ended it after which run
HistInit ==
    [event |-> "none", clicks |-> 0, frames |-> 0,
     loudSeen |-> FALSE, silentRun |-> 0, byWake |-> FALSE,
     stopCause |-> "none", stopRun |-> 0, stopLoud |-> FALSE,
     stopByWake |-> FALSE,
     stopMicOn |-> {}]

-----------------------------------------------------------------------------
(* Playback of the companion page: the audio-slot element and playQueue *)

\* values of the element's src content attribute other than a clip's URL;
\* the URL of the k-th clip that arrives is k
NoSrcAttr == -1
EmptySrc == 0

\* state is "nothing" (no resource), "paused", "playing" or "ended"
PlayerInit ==
    [srcAttr |-> NoSrcAttr,     \* <audio id="audio-slot" controls>
     loaded |-> 0,              \* the clip selected as the element's resource
     state |-> "nothing",
     onended |-> FALSE,         \* audioEl.onended is installed
     playQueue |-> <<>>,
     audioMuted |-> FALSE,
     muted |-> FALSE,           \* audioEl.muted
     arrived |-> 0,             \* history: clips that arrived in a record
     touched |-> FALSE,         \* history: the user has used the element's
                                \* controls or the Stop Audio button
     played |-> <<>>,           \* history: clips whose playback began, in order
     interrupted |-> {}]        \* history: clips cut off while playing

\* audioEl.src: '' without the attribute; an empty attribute reads as the
\* document's URL
SrcRead(p) == IF p.srcAttr = NoSrcAttr THEN "" ELSE "url"

\* el.src = url: the element drops its resource and selects the new one
Load(p, url) ==
    [p EXCEPT !.srcAttr = url,
              !.loaded = url,
              !.state = IF url = EmptySrc THEN "nothing" ELSE "paused",
              !.interrupted = IF p.state = "playing"
                              THEN @ \cup {p.loaded} ELSE @]

\* setMediaSrc('audio-slot', url): el.src = safeMediaUrl(url) || ''
setMediaSrc(p, url) == Load(p, url)

\* audioEl.play() on the resource selected
Play(p) ==
    IF p.loaded = 0 THEN p
    ELSE [p EXCEPT !.state = "playing", !.played = Append(@, p.loaded)]

\* if (!audioEl.src || audioEl.ended); ended is what audioEl.ended reads
Idle(p, ended) == SrcRead(p) = "" \/ ended

\* the queue part of applyExperience for a record with audio_url url
Enqueue(p, url, ended) ==
    LET q == [p EXCEPT !.playQueue = Append(@, url)]
    IN IF Idle(q, ended)
       THEN [Play([Load([q EXCEPT !.playQueue = Tail(@)], Head(q.playQueue))
                      EXCEPT !.muted = q.audioMuted])
               EXCEPT !.onended = TRUE]
       ELSE q

-----------------------------------------------------------------------------
\* a worker thread that serves no request
IdleThread == [pc |-> "idle", payload |-> 0]

Init ==
    /\ started = FALSE
    /\ experience_log = <<>>
    /\ experience_queue = <<>>
    /\ manifest = NoManifest
    /\ last_error = "none"
    /\ clients = {}
    /\ request = [op |-> "none"]
    /\ response = [op |-> "none", status |-> 0]
    /\ outbound = <<>>
    /\ logged = <<>>
    /\ enqueued = <<>>
    /\ emitted = <<>>
    /\ connectedAt = [c \in 1..NumClients |-> 0]
    /\ everLoaded = FALSE
    /\ fallbackInjected = FALSE
    /\ mic = MicInit
    /\ hist = HistInit
    /\ player = PlayerInit
    /\ threads = [t \in 1..NumThreads |-> IdleThread]

-----------------------------------------------------------------------------
(* Startup hook and test-data seeding *)

sample_cards == [i \in 1..SeedCards |-> Created + i]

RECURSIVE PutAll(_, _)
\* for card in cards: try put_nowait(card) except: pass
PutAll(q, cards) ==
    IF cards = <<>> THEN q
    ELSE PutAll(PutNowaitSwallow(q, Head(cards)), Tail(cards))

\* _seed_test_data(); mirror is the outcome of the dashboard call
SeedTestData(mirror) ==
    /\ experience_log' = DelFrom(sample_cards, experience_log_max)
    /\ experience_queue' = PutAll(experience_queue, sample_cards)
    /\ logged' = logged \o [i \in 1..SeedCards |-> "seed"]
    /\ enqueued' = enqueued \o
          SubSeq(PutAll(experience_queue, sample_cards),
                 Len(experience_queue) + 1,
                 Len(PutAll(experience_queue, sample_cards)))
    /\ outbound' = <<Call("POST", "context", <<"dashboard", "test-user">>,
                          sample_cards, NoHeaders, mirror)>>

\* _startup_refresh()
Startup(test_mode, fetch, mirror) ==
    /\ ~started
    /\ started' = TRUE
    /\ manifest' = RefreshManifest(manifest, fetch)
    /\ last_error' = RefreshError(last_error, fetch)
    /\ everLoaded' = (everLoaded \/ fetch.ok)
    /\ IF test_mode
       THEN SeedTestData(mirror)
       ELSE UNCHANGED <<logVars, outbound>>
    /\ request' = [op |-> "startup", test_mode |-> test_mode]
    /\ response' = [op |-> "startup", status |-> 0]
    /\ UNCHANGED <<pageVars, threads>>
    /\ UNCHANGED <<fallbackInjected, streamVars>>

-----------------------------------------------------------------------------
(* Experience log handlers *)

\* outcomes of a best-effort call to the context service
MirrorOutcomes == {[raised |-> TRUE, status |-> 0],
                   [raised |-> FALSE, status |-> 200]}

\* _experience_log.insert(0, payload); del _experience_log[_experience_log_max:]
StoreAtTail(log, payload) == DelFrom(Append(log, payload), experience_log_max)
Store(log, payload) == DelFrom(InsertHead(log, payload), experience_log_max)

\* the dashboard call of log_experience: made only for a truthy person_id
MirrorCalls(person_id, log, mirror) ==
    IF Truthy(Get(person_id))
    THEN <<Call("POST", "context", <<"dashboard", person_id>>,
                SubSeq(log, 1, Min(Len(log), DashboardCards)),
                NoHeaders, mirror)>>
    ELSE <<>>

\* status of POST /experiences: both side effects run under try/except
LogExperienceStatusUncaught(calls) ==
    IF calls # <<>> /\ calls[1].result.raised THEN 500 ELSE 200
LogExperienceStatus(calls) == 200

\* POST /experiences; person_id is the body's person_id, mirror the outcome
\* of the dashboard call when one is made
log_experience(person_id, mirror) ==
    /\ started
    /\ LET payload == NewRecord
           log2 == Store(experience_log, payload)
           q2 == PutNowaitSwallow(experience_queue, payload)
           calls == MirrorCalls(person_id, log2, mirror)
       IN /\ experience_log' = log2
          /\ experience_queue' = q2
          /\ logged' = Append(logged, "experience")
          /\ enqueued' = IF q2 = experience_queue THEN enqueued
                         ELSE Append(enqueued, payload)
          /\ outbound' = calls
          /\ request' = [op |-> "log_experience", person_id |-> person_id]
          /\ response' = IF LogExperienceStatus(calls) = 200
                         THEN [op |-> "log_experience", status |-> 200,
                               ok |-> TRUE, stored |-> Len(log2)]
                         ELSE [op |-> "log_experience",
                               status |-> LogExperienceStatus(calls)]
    /\ UNCHANGED <<pageVars, threads>>
    /\ UNCHANGED <<started, capVars, streamVars>>

\* GET /experiences
list_experiences ==
    /\ started
    /\ request' = [op |-> "list_experiences"]
    /\ response' = [op |-> "list_experiences", status |-> 200,
                    items |-> experience_log]
    /\ outbound' = <<>>
    /\ UNCHANGED <<pageVars, threads>>
    /\ UNCHANGED <<started, logVars, capVars, streamVars>>

\* list.append(x); if len(list) > max: list.pop(0)
AppendNoPop(log, x) == Append(log, x)
AppendPop(log, x) ==
    IF Len(Append(log, x)) > experience_log_max
    THEN PopFirst(Append(log, x))
    ELSE Append(log, x)

\* POST /payments/approvals
record_payment_approval ==
    /\ started
    /\ LET approval == NewRecord
       IN /\ experience_log' = AppendPop(experience_log, approval)
          /\ logged' = Append(logged, "payment_approval")
          /\ response' = [op |-> "record_payment_approval", status |-> 200,
                          ok |-> TRUE, approval |-> approval]
    /\ request' = [op |-> "record_payment_approval"]
    /\ outbound' = <<>>
    /\ UNCHANGED <<pageVars, threads>>
    /\ UNCHANGED <<started, experience_queue, enqueued, capVars, streamVars>>

\* outcomes of the orchestrator call: the call raises, or answers a status
\* and a body ("dict": a JSON object, "list": other JSON, "notjson")
UpstreamOutcomes == {[raised |-> TRUE, status |-> 0, body |-> "notjson"],
                     [raised |-> FALSE, status |-> 200, body |-> "dict"],
                     [raised |-> FALSE, status |-> 500, body |-> "dict"]}

\* status of GET /payments/transactions/{txn_id}: a non-200 answer is
\* re-raised with the upstream's status, any other exception inside the try
\* block becomes 502, body.get() on a body that is no dict is not caught
PaymentStatus(up) ==
    IF up.raised THEN 502
    ELSE IF up.status # 200 THEN up.status
    ELSE IF up.body = "notjson" THEN 502
    ELSE IF up.body # "dict" THEN 500
    ELSE 200

\* GET /payments/transactions/{txn_id}
get_payment_status(up) ==
    /\ started
    /\ request' = [op |-> "get_payment_status"]
    /\ outbound' = <<Call("GET", "orchestrator", <<"payments", "transactions">>,
                          Null, NoHeaders, up)>>
    /\ IF PaymentStatus(up) # 200
       THEN /\ response' = [op |-> "get_payment_status",
                            status |-> PaymentStatus(up)]
            /\ UNCHANGED logVars
       ELSE LET rec == NewRecord
            IN /\ experience_log' = AppendPop(experience_log, rec)
               /\ logged' = Append(logged, "payment_status")
               /\ response' = [op |-> "get_payment_status", status |-> 200,
                               ok |-> TRUE]
               /\ UNCHANGED <<experience_queue, enqueued>>
    /\ UNCHANGED <<pageVars, threads>>
    /\ UNCHANGED <<started, capVars, streamVars>>

-----------------------------------------------------------------------------
(* Broadcast stream *)

\* f"data: {json.dumps(item)}\n\n"
SseEvent(item) == <<"data: ", item, "\n\n">>

\* the record an event carries (what the client's JSON.parse(ev.data) yields)
EventData(ev) == ev[2]

\* the item queue.get() returns: the oldest one
NextItemNewest(q) == q[Len(q)]
NextItem(q) == Head(q)

\* the queue after the generator's get() has taken its item
AfterGetPeek(q) == q
AfterGet(q) == Tail(q)

\* GET /experiences/stream: a new generator starts for client c
stream_experiences(c) ==
    /\ started
    /\ c \notin clients
    /\ clients' = clients \cup {c}
    /\ connectedAt' = [connectedAt EXCEPT ![c] = Created]
    /\ request' = [op |-> "stream_experiences", client |-> c]
    /\ response' = [op |-> "stream_experiences", status |-> 200]
    /\ outbound' = <<>>
    /\ UNCHANGED <<pageVars, threads>>
    /\ UNCHANGED <<started, logVars, capVars, emitted>>

\* one turn of event_generator's loop for client c: get an item, yield it
event_generator(c) ==
    /\ c \in clients
    /\ experience_queue # <<>>
    /\ experience_queue' = AfterGet(experience_queue)
    /\ emitted' = Append(emitted, [client |-> c, since |-> connectedAt[c],
                                   event |-> SseEvent(NextItem(experience_queue))])
    /\ UNCHANGED <<pageVars, threads>>
    /\ UNCHANGED <<started, experience_log, logged, enqueued, capVars,
                   clients, connectedAt, request, response, outbound>>

\* client c goes away: its generator, suspended in get(), is cancelled
client_disconnect(c) ==
    /\ c \in clients
    /\ clients' = clients \ {c}
    /\ connectedAt' = [connectedAt EXCEPT ![c] = 0]
    /\ UNCHANGED <<pageVars, threads>>
    /\ UNCHANGED <<started, logVars, capVars, emitted,
                   request, response, outbound>>

-----------------------------------------------------------------------------
(* Specification of the experience log *)

\* the bodies posted and the outcome of the dashboard call each one leads to
LogPosts == {<<Absent, [raised |-> FALSE, status |-> 200]>>,
             <<Str("p1"), [raised |-> FALSE, status |-> 200]>>,
             <<Str("p1"), [raised |-> TRUE, status |-> 0]>>}

NextLog ==
    \/ \E tm \in BOOLEAN, m \in MirrorOutcomes : Startup(tm, [ok |-> FALSE], m)
    \/ /\ Created < MaxLogOps
       /\ \E pm \in LogPosts : log_experience(pm[1], pm[2])
    \/ list_experiences
    \/ /\ Created < MaxLogOps
       /\ Payments < MaxPayments
       /\ record_payment_approval
    \/ /\ Created < MaxLogOps
       /\ \E up \in UpstreamOutcomes :
             /\ (up.raised = FALSE /\ up.status = 200) => Payments < MaxPayments
             /\ get_payment_status(up)

SpecLog == Init /\ [][NextLog]_vars

-----------------------------------------------------------------------------
(* Specification of the payment status proxy *)

\* every kind of answer the orchestrator may give
PaymentOutcomes ==
    UpstreamOutcomes \cup
    {[raised |-> FALSE, status |-> 204, body |-> "notjson"],
     [raised |-> FALSE, status |-> 404, body |-> "dict"],
     [raised |-> FALSE, status |-> 200, body |-> "notjson"],
     [raised |-> FALSE, status |-> 200, body |-> "list"]}

NextPay ==
    \/ \E tm \in BOOLEAN, m \in MirrorOutcomes : Startup(tm, [ok |-> FALSE], m)
    \/ /\ Created < MaxPayOps
       /\ log_experience(Absent, [raised |-> FALSE, status |-> 200])
    \/ /\ Created < MaxPayOps
       /\ record_payment_approval
    \/ \E up \in PaymentOutcomes :
          /\ PaymentStatus(up) = 200 => Created < MaxPayOps
          /\ get_payment_status(up)

SpecPay == Init /\ [][NextPay]_vars

-----------------------------------------------------------------------------
(* Specification of the broadcast stream *)

NextStream ==
    \/ \E tm \in BOOLEAN, m \in MirrorOutcomes : Startup(tm, [ok |-> FALSE], m)
    \/ /\ Created < MaxStreamOps
       /\ log_experience(Absent, [raised |-> FALSE, status |-> 200])
    \/ \E c \in 1..NumClients : stream_experiences(c)
    \/ \E c \in 1..NumClients : event_generator(c)
    \/ \E c \in 1..NumClients : client_disconnect(c)

SpecStream == Init /\ [][NextStream]_vars

\* the event loop resumes a generator whose get() can return: a generator
\* step that stays enabled is eventually taken
FairStream == SpecStream /\ WF_vars(\E c \in 1..NumClients : event_generator(c))

-----------------------------------------------------------------------------
(* Capability endpoints *)

\* the manifest ready() leaves in the client: the fallback when no display is listed
ReadyManifestKept(m) == m
ReadyManifest(m) ==
    IF modality_count(m, "displays") = 0 THEN FallbackManifest ELSE m

\* ready_flag as ready() computes it
ReadyFlagNoOverride(m) ==
    modality_count(m, "displays") > 0 \/ ~ManifestTruthy(m)
ReadyFlag(m) ==
    IF modality_count(m, "displays") = 0
    THEN TRUE
    ELSE modality_count(m, "displays") > 0 \/ ~ManifestTruthy(m)

\* GET /ready, GET /readyz
ready ==
    /\ started
    /\ manifest' = ReadyManifest(manifest)
    /\ fallbackInjected' = (fallbackInjected \/ modality_count(manifest, "displays") = 0)
    /\ request' = [op |-> "ready", manifest |-> manifest]
    /\ response' = [op |-> "ready", status |-> 200,
                    ready |-> ReadyFlag(manifest),
                    checks |-> [manifest_loaded |-> ManifestTruthy(manifest),
                                displays |-> modality_count(ReadyManifest(manifest), "displays"),
                                last_error |-> last_error]]
    /\ outbound' = <<>>
    /\ UNCHANGED <<pageVars, threads>>
    /\ UNCHANGED <<started, logVars, streamVars, last_error, everLoaded>>

\* status of GET /capabilities
CapabilitiesStatusFalsy(m) == IF ~ManifestTruthy(m) THEN 503 ELSE 200
CapabilitiesStatus(m) == IF m.kind = "none" THEN 503 ELSE 200

\* GET /capabilities
get_capabilities ==
    /\ started
    /\ request' = [op |-> "get_capabilities"]
    /\ response' = IF CapabilitiesStatus(manifest) = 200
                   THEN [op |-> "get_capabilities", status |-> 200,
                         manifest |-> manifest,
                         displays |-> modality_count(manifest, "displays")]
                   ELSE [op |-> "get_capabilities",
                         status |-> CapabilitiesStatus(manifest)]
    /\ outbound' = <<>>
    /\ UNCHANGED <<pageVars, threads>>
    /\ UNCHANGED <<started, logVars, streamVars, capVars>>

\* POST /capabilities/refresh
refresh_capabilities(fetch) ==
    /\ started
    /\ manifest' = RefreshManifest(manifest, fetch)
    /\ last_error' = RefreshError(last_error, fetch)
    /\ everLoaded' = (everLoaded \/ fetch.ok)
    /\ request' = [op |-> "refresh_capabilities"]
    /\ response' = [op |-> "refresh_capabilities", status |-> 200,
                    ok |-> (RefreshManifest(manifest, fetch).kind # "none")]
    /\ outbound' = <<>>
    /\ UNCHANGED <<pageVars, threads>>
    /\ UNCHANGED <<started, logVars, streamVars, fallbackInjected>>

-----------------------------------------------------------------------------
(* Speech-to-text proxy *)

\* isinstance(audio_b64, str) and audio_b64
AudioValidTruthy(audio) == Truthy(Get(audio))
AudioValid(audio) == Get(audio).t = "str" /\ Truthy(Get(audio))

\* body.get("person_id") or _default_person_id
SttPerson(person_id) == Or(Get(person_id), Str(default_person_id))

\* body.get("session_id") or "default-session"
SttSession(session_id) == Or(Get(session_id), Str(DefaultSession))

\* headers of the upstream request: the baton is copied when truthy
SttHeadersDropped(baton) == [baton |-> Absent]
SttHeaders(baton) == [baton |-> IF Truthy(Get(baton)) THEN baton ELSE Absent]

\* answers of the speech service: the call raises, or answers status and body
SpeechOutcomes == {[raised |-> TRUE, status |-> 0, body |-> "none"],
                   [raised |-> FALSE, status |-> 200, body |-> "transcript"],
                   [raised |-> FALSE, status |-> 500, body |-> "error"]}

\* status of POST /speech/stt once the upstream call has been made:
\* raise_for_status() and every other exception end in HTTPException(502)
SttStatusPassedThrough(up) ==
    IF up.raised THEN 502 ELSE IF up.status >= 400 THEN up.status ELSE 200
SttStatus(up) == IF up.raised \/ up.status >= 400 THEN 502 ELSE 200

\* POST /speech/stt
proxy_speech_stt(audio, person_id, session_id, baton, up) ==
    /\ started
    /\ request' = [op |-> "proxy_speech_stt", audio |-> audio,
                   person_id |-> person_id, session_id |-> session_id,
                   baton |-> baton]
    /\ IF ~AudioValid(audio)
       THEN /\ response' = [op |-> "proxy_speech_stt", status |-> 400]
            /\ outbound' = <<>>
       ELSE /\ outbound' = <<Call("POST", "speech", <<"speech", "stt">>,
                                  [audio |-> audio,
                                   person_id |-> SttPerson(person_id),
                                   session_id |-> SttSession(session_id)],
                                  SttHeaders(baton), up)>>
            /\ response' = IF SttStatus(up) # 200
                           THEN [op |-> "proxy_speech_stt",
                                 status |-> SttStatus(up)]
                           ELSE [op |-> "proxy_speech_stt", status |-> 200,
                                 body |-> up.body]
    /\ UNCHANGED <<pageVars, threads>>
    /\ UNCHANGED <<started, logVars, streamVars, capVars>>

AudioInputs == {Absent, Null, Num(42), Str(""), Str("ZGF0YQ==")}
PersonInputs == {Absent, Null, Str(""), Str("p1")}
SessionInputs == {Absent, Str(""), Str("s1")}
BatonInputs == {Absent, Str(""), Str("baton-123")}

-----------------------------------------------------------------------------
(* Wake-word lookup *)

\* a string as the sequence of its characters, and the other JSON values a
\* profile body is made of
Text(chars) == [t |-> "text", v |-> chars]
Dict(fields) == [t |-> "dict", v |-> fields]
List(items) == [t |-> "list", v |-> items]
EmptyDict == Dict([k \in {} |-> Null])

wakeword_default == <<"u", "n", "i", "s", "o", "n">>

Whitespace == {" "}
WakeChars == {" ", "h", "u"}

\* Python truthiness of a JSON value
JTruthy(x) ==
    CASE x.t = "null" -> FALSE
      [] x.t = "int" -> x.v # 0
      [] x.t = "text" -> Len(x.v) > 0
      [] x.t = "list" -> Len(x.v) > 0
      [] x.t = "dict" -> DOMAIN x.v # {}

\* a or {}
OrEmptyDict(a) == IF JTruthy(a) THEN a ELSE EmptyDict

\* x.get(key) is defined for a dict only; on any other value it raises
HasGet(x) == x.t = "dict"
DictGet(d, key) == IF key \in DOMAIN d.v THEN d.v[key] ELSE Null

RECURSIVE LStrip(_)
LStrip(chars) ==
    IF Len(chars) > 0 /\ Head(chars) \in Whitespace
    THEN LStrip(Tail(chars)) ELSE chars

RECURSIVE RStrip(_)
RStrip(chars) ==
    IF Len(chars) > 0 /\ chars[Len(chars)] \in Whitespace
    THEN RStrip(SubSeq(chars, 1, Len(chars) - 1)) ELSE chars

\* str.strip()
StripLeading(chars) == LStrip(chars)
Strip(chars) == RStrip(LStrip(chars))

\* the wakeword get_wakeword answers for the profile call's outcome up: any
\* exception inside the try block leaves the default
Wakeword(up) ==
    IF up.raised THEN wakeword_default
    ELSE IF up.status # 200 THEN wakeword_default
    ELSE IF ~up.json_ok THEN wakeword_default
    ELSE LET body == OrEmptyDict(up.body)
         IN IF ~HasGet(body) THEN wakeword_default
            ELSE LET profile == OrEmptyDict(DictGet(body, "profile"))
                 IN IF ~HasGet(profile) THEN wakeword_default
                    ELSE LET voice == OrEmptyDict(DictGet(profile, "voice"))
                         IN IF ~HasGet(voice) THEN wakeword_default
                            ELSE LET ww == DictGet(voice, "wakeword")
                                 IN IF ww.t = "text" /\ Len(Strip(ww.v)) > 0
                                    THEN Strip(ww.v)
                                    ELSE wakeword_default

\* GET /wakeword?person_id=
get_wakeword(person_id, up) ==
    /\ started
    /\ LET pid == Or(Get(person_id), Str(default_person_id))
       IN /\ request' = [op |-> "get_wakeword", person_id |-> person_id]
          /\ outbound' = <<Call("GET", "context", <<"profile", pid>>,
                                Null, NoHeaders, up)>>
          /\ response' = [op |-> "get_wakeword", status |-> 200,
                          wakeword |-> Wakeword(up), person_id |-> pid]
    /\ UNCHANGED <<pageVars, threads>>
    /\ UNCHANGED <<started, logVars, streamVars, capVars>>

\* the strings of at most n characters
Strings(n) == UNION {[1..k -> WakeChars] : k \in 0..n}

\* the values the context service may serve under voice.wakeword, voice,
\* profile, and as the body
WakewordValues == {Null, Num(7)} \cup {Text(c) : c \in Strings(MaxWakeLen)}
VoiceValues ==
    {Null, Num(7), EmptyDict} \cup
    {Dict([k \in {"wakeword"} |-> w]) : w \in WakewordValues}
ProfileValues ==
    {Null, Text(<<"h">>)} \cup {Dict([k \in {"voice"} |-> v]) : v \in VoiceValues}
ProfileBodies ==
    {Null, List(<<Num(7)>>), EmptyDict} \cup
    {Dict([k \in {"profile"} |-> p]) : p \in ProfileValues}

\* outcomes of the profile call: it raises, answers a non-200 status, answers
\* 200 with a body that is not JSON, or answers 200 with a JSON body
ProfileOutcomes ==
    {[raised |-> TRUE, status |-> 0, json_ok |-> FALSE, body |-> Null],
     [raised |-> FALSE, status |-> 404, json_ok |-> TRUE, body |-> EmptyDict],
     [raised |-> FALSE, status |-> 500, json_ok |-> FALSE, body |-> Null],
     [raised |-> FALSE, status |-> 200, json_ok |-> FALSE, body |-> Null]} \cup
    {[raised |-> FALSE, status |-> 200, json_ok |-> TRUE, body |-> b] :
        b \in ProfileBodies}

WakePersons == {Absent, Str(""), Str("p1")}

-----------------------------------------------------------------------------
(* Audio capture loop of the companion page: handlers *)

\* the history after a handler has taken the globals from m to m2; rms is
\* the energy of the frame it analysed, if it analysed one
HistAfter(m, m2, event, analysed, rms, cause) ==
    LET began == m2.recording # m.recording
        wasRecording == m.mediaRecorder = "recording"
        loud == IF began THEN rms > vadConfig.start
                ELSE IF wasRecording /\ analysed
                THEN hist.loudSeen \/ rms > vadConfig.start
                ELSE hist.loudSeen
        run == IF began THEN 0
               ELSE IF wasRecording /\ analysed
               THEN (IF rms < vadConfig.stop THEN hist.silentRun + 1 ELSE 0)
               ELSE hist.silentRun
        ended == wasRecording /\ m2.mediaRecorder # "recording"
        \* the energy branch starts a recording on a frame above the start
        \* threshold only; any other start is the wake-word branch's
        wake == IF began THEN ~(rms > vadConfig.start) ELSE hist.byWake
    IN [hist EXCEPT !.event = event,
                    !.frames = IF analysed THEN @ + 1 ELSE @,
                    !.loudSeen = loud,
                    !.silentRun = run,
                    !.byWake = wake,
                    !.stopByWake = IF ended THEN wake ELSE @,
                    !.stopCause = IF ended THEN cause ELSE @,
                    !.stopRun = IF ended THEN run ELSE @,
                    !.stopLoud = IF ended THEN loud ELSE @]

\* click on the mic toggle: stopMic() when the loop is active, else startMic()
\* up to its await of getUserMedia()
mic_toggle_click ==
    /\ mic' = IF mic.vadActive THEN stopMic(mic)
              ELSE [mic EXCEPT !.pendingMedia = @ + 1]
    /\ hist' = [HistAfter(mic, mic', IF mic.vadActive THEN "stopMic" ELSE "startMic",
                          FALSE, 0, "stopMic")
                  EXCEPT !.clicks = @ + 1,
                         !.stopMicOn = IF mic.vadActive /\ mic.mediaRecorder # "null"
                                       THEN @ \cup {mic.recording} ELSE @]
    /\ UNCHANGED <<serverVars, player>>

\* getUserMedia() resolves: the rest of startMic(), whose call of
\* analyseLoop() analyses a first frame
startMic_granted(rms, triggered) ==
    /\ mic.pendingMedia > 0
    /\ LET id == mic.acquired + 1
           m1 == [mic EXCEPT !.pendingMedia = @ - 1,
                             !.acquired = id,
                             !.open = @ \cup {id},
                             !.micStream = id,
                             !.analyser = TRUE,
                             !.vadActive = TRUE]
       IN /\ mic' = analyseLoop(m1, rms, triggered)
          /\ hist' = HistAfter(mic, mic', "granted", TRUE, rms, "silence")
    /\ UNCHANGED <<serverVars, player>>

\* getUserMedia() rejects: startMic() only shows 'permission denied'
startMic_denied ==
    /\ mic.pendingMedia > 0
    /\ mic' = [mic EXCEPT !.pendingMedia = @ - 1]
    /\ hist' = HistAfter(mic, mic', "denied", FALSE, 0, "none")
    /\ UNCHANGED <<serverVars, player>>

\* a pending requestAnimationFrame callback runs analyseLoop()
animation_frame(rms, triggered) ==
    /\ mic.loops > 0
    /\ LET m1 == [mic EXCEPT !.loops = @ - 1]
       IN /\ mic' = analyseLoop(m1, rms, triggered)
          /\ hist' = HistAfter(mic, mic', "frame", m1.analyser /\ m1.vadActive,
                               rms, "silence")
    /\ UNCHANGED <<serverVars, player>>

\* the task queued by MediaRecorder.stop(): dataavailable with the recorded
\* blob, then stop, which runs the onstop handler installed last
recorder_stopped ==
    /\ mic.mediaRecorder = "inactive"
    /\ LET m1 == [mic EXCEPT !.audioChunks = Append(@, mic.recording)]
       IN mic' = [m1 EXCEPT
                     !.mediaRecorder = "null",
                     !.submitted = IF ShouldSend(m1.onstop.send, m1.onstop.chunks)
                                   THEN Append(@, [recording |-> mic.recording,
                                                   chunks |-> m1.onstop.chunks])
                                   ELSE @,
                     !.audioChunks = <<>>,
                     !.onstop = NoHandler]
    /\ hist' = HistAfter(mic, mic', "recorder_stopped", FALSE, 0, "none")
    /\ UNCHANGED <<serverVars, player>>

\* frame energies: below, at and above the two thresholds
Energies == {5, 10, 20, 25}

\* answers of the wake-word detector (WakewordDetector.processFrame) for a frame
WakeAnswers == BOOLEAN

-----------------------------------------------------------------------------
(* Playback of the companion page: handlers *)

\* what audioEl.ended reads once the element has been given a new src in
\* the same task: false in browsers, which answer from the element's present
\* state; the value of the task's start by the letter of the HTML standard
EndedReads(state) == IF state = "ended" THEN BOOLEAN ELSE {FALSE}

\* applyExperience(latest) for a record whose audio_url is url (EmptySrc for
\* a record without audio_url)
applyExperience(url, ended) ==
    /\ LET p1 == setMediaSrc(player, url)
       IN player' = IF url # EmptySrc
                    THEN Enqueue([p1 EXCEPT !.arrived = url], url, ended)
                    ELSE p1
    /\ UNCHANGED <<serverVars, micVars>>

\* the clip that is playing reaches its end: 'ended' is fired
clip_ended ==
    /\ player.state = "playing"
    /\ LET p1 == [player EXCEPT !.state = "ended"]
       IN player' = IF p1.onended /\ Len(p1.playQueue) > 0
                    THEN Play(Load([p1 EXCEPT !.playQueue = Tail(@)],
                                   Head(p1.playQueue)))
                    ELSE p1
    /\ UNCHANGED <<serverVars, micVars>>

\* the user starts playback with the element's controls
user_play ==
    /\ player.state \in {"paused", "ended"}
    /\ player' = [Play(player) EXCEPT !.touched = TRUE]
    /\ UNCHANGED <<serverVars, micVars>>

\* click on Stop Audio
stop_audio_click ==
    /\ player' = [player EXCEPT
                     !.playQueue = <<>>,
                     !.state = IF @ = "nothing" THEN "nothing" ELSE "paused",
                     !.srcAttr = NoSrcAttr,
                     !.touched = TRUE]
    /\ UNCHANGED <<serverVars, micVars>>

\* click on Mute Audio
mute_click ==
    /\ player' = [player EXCEPT !.audioMuted = ~@, !.muted = ~player.audioMuted]
    /\ UNCHANGED <<serverVars, micVars>>

-----------------------------------------------------------------------------
(* Handlers of the experience log as the worker threads run them: the      *)
(* handlers are plain def functions, which the framework runs in a thread  *)
(* pool, so their statements interleave                                    *)

\* log_experience, up to and including _experience_log.insert(0, payload)
t_insert(t) ==
    /\ started
    /\ threads[t].pc = "idle"
    /\ experience_log' = InsertHead(experience_log, NewRecord)
    /\ logged' = Append(logged, "experience")
    /\ threads' = [threads EXCEPT ![t] = [pc |-> "del", payload |-> NewRecord]]
    /\ request' = [op |-> "log_experience", person_id |-> Absent]
    /\ UNCHANGED <<started, experience_queue, enqueued, capVars, streamVars,
                   response, outbound, pageVars>>

\* del _experience_log[_experience_log_max:]
t_del(t) ==
    /\ threads[t].pc = "del"
    /\ experience_log' = DelFrom(experience_log, experience_log_max)
    /\ threads' = [threads EXCEPT ![t].pc = "put"]
    /\ UNCHANGED <<started, experience_queue, logged, enqueued, capVars,
                   streamVars, request, response, outbound, pageVars>>

\* the rest of log_experience for a body without person_id: put_nowait, return
t_put_return(t) ==
    /\ threads[t].pc = "put"
    /\ experience_queue' = PutNowaitSwallow(experience_queue, threads[t].payload)
    /\ enqueued' = IF experience_queue' = experience_queue THEN enqueued
                   ELSE Append(enqueued, threads[t].payload)
    /\ response' = [op |-> "log_experience", status |-> 200, ok |-> TRUE,
                    stored |-> Len(experience_log)]
    /\ outbound' = <<>>
    /\ threads' = [threads EXCEPT ![t] = IdleThread]
    /\ UNCHANGED <<started, experience_log, logged, capVars, streamVars,
                   request, pageVars>>

\* record_payment_approval, up to and including _experience_log.append(...)
t_append(t) ==
    /\ started
    /\ threads[t].pc = "idle"
    /\ experience_log' = Append(experience_log, NewRecord)
    /\ logged' = Append(logged, "payment_approval")
    /\ threads' = [threads EXCEPT ![t] = [pc |-> "check", payload |-> NewRecord]]
    /\ request' = [op |-> "record_payment_approval"]
    /\ UNCHANGED <<started, experience_queue, enqueued, capVars, streamVars,
                   response, outbound, pageVars>>

\* if len(_experience_log) > _experience_log_max: the test
t_check(t) ==
    /\ threads[t].pc = "check"
    /\ threads' = [threads EXCEPT ![t].pc =
                      IF Len(experience_log) > experience_log_max
                      THEN "pop" ELSE "return"]
    /\ UNCHANGED <<started, logVars, capVars, streamVars, request, response,
                   outbound, pageVars>>

\* _experience_log.pop(0)
t_pop(t) ==
    /\ threads[t].pc = "pop"
    /\ experience_log' = PopFirst(experience_log)
    /\ threads' = [threads EXCEPT ![t].pc = "return"]
    /\ UNCHANGED <<started, experience_queue, logged, enqueued, capVars,
                   streamVars, request, response, outbound, pageVars>>

\* return {"ok": True, "approval": approval}
t_approval_return(t) ==
    /\ threads[t].pc = "return"
    /\ response' = [op |-> "record_payment_approval", status |-> 200, ok |-> TRUE]
    /\ outbound' = <<>>
    /\ threads' = [threads EXCEPT ![t] = IdleThread]
    /\ UNCHANGED <<started, logVars, capVars, streamVars, request, pageVars>>

\* list_experiences on thread t: the response is built from the list as it is
t_list(t) ==
    /\ started
    /\ threads[t].pc = "idle"
    /\ request' = [op |-> "list_experiences"]
    /\ response' = [op |-> "list_experiences", status |-> 200,
                    items |-> experience_log]
    /\ outbound' = <<>>
    /\ UNCHANGED <<started, logVars, capVars, streamVars, threads, pageVars>>

-----------------------------------------------------------------------------
(* Specification of the log handlers on worker threads *)

\* requests in flight that change the log
Writers == Cardinality({t \in 1..NumThreads : threads[t].pc # "idle"})

NextThreads ==
    \/ \E m \in MirrorOutcomes : Startup(FALSE, [ok |-> FALSE], m)
    \/ /\ Created < MaxThreadOps
       /\ Writers < MaxWriters
       /\ \E t \in 1..NumThreads : t_insert(t)
    \/ \E t \in 1..NumThreads : t_del(t)
    \/ \E t \in 1..NumThreads : t_put_return(t)
    \/ /\ Created < MaxThreadOps
       /\ Payments < MaxPayments
       /\ Writers < MaxWriters
       /\ \E t \in 1..NumThreads : t_append(t)
    \/ \E t \in 1..NumThreads : t_check(t)
    \/ \E t \in 1..NumThreads : t_pop(t)
    \/ \E t \in 1..NumThreads : t_approval_return(t)
    \/ \E t \in 1..NumThreads : t_list(t)

SpecThreads == Init /\ [][NextThreads]_vars

-----------------------------------------------------------------------------
(* Specification of the capability endpoints *)

NextCaps ==
    \/ \E f \in FetchOutcomes : Startup(FALSE, f, [raised |-> TRUE, status |-> 0])
    \/ ready
    \/ get_capabilities
    \/ \E f \in FetchOutcomes : refresh_capabilities(f)

SpecCaps == Init /\ [][NextCaps]_vars

-----------------------------------------------------------------------------
(* Specification of the speech-to-text proxy *)

NextStt ==
    \/ \E f \in {[ok |-> FALSE]} : Startup(FALSE, f, [raised |-> TRUE, status |-> 0])
    \/ \E a \in AudioInputs, p \in PersonInputs, s \in SessionInputs,
          b \in BatonInputs, up \in SpeechOutcomes :
             proxy_speech_stt(a, p, s, b, up)

SpecStt == Init /\ [][NextStt]_vars

-----------------------------------------------------------------------------
(* Specification of the wake-word lookup *)

NextWake ==
    \/ \E f \in {[ok |-> FALSE]} : Startup(FALSE, f, [raised |-> TRUE, status |-> 0])
    \/ \E p \in WakePersons, up \in ProfileOutcomes : get_wakeword(p, up)

SpecWake == Init /\ [][NextWake]_vars

-----------------------------------------------------------------------------
(* Specification of the audio capture loop *)

NextMic ==
    \/ /\ hist.clicks < MaxClicks
       /\ mic_toggle_click
    \/ /\ hist.frames < MaxFrames
       /\ \E rms \in Energies, triggered \in WakeAnswers : startMic_granted(rms, triggered)
    \/ startMic_denied
    \/ /\ hist.frames < MaxFrames
       /\ \E rms \in Energies, triggered \in WakeAnswers : animation_frame(rms, triggered)
    \/ recorder_stopped

SpecMic == Init /\ [][NextMic]_vars

-----------------------------------------------------------------------------
(* Specification of playback *)

NextPlay ==
    \/ /\ player.arrived < MaxClips
       /\ \E ended \in EndedReads(player.state) :
             applyExperience(player.arrived + 1, ended)
    \/ applyExperience(EmptySrc, FALSE)
    \/ clip_ended
    \/ /\ Len(player.played) < MaxPlays
       /\ user_play
    \/ stop_audio_click
    \/ mute_click

SpecPlay == Init /\ [][NextPlay]_vars

\* a clip that is playing comes to its end
FairPlay == SpecPlay /\ WF_vars(clip_ended)

-----------------------------------------------------------------------------
(* Properties *)

OnlyPosts == \A i \in 1..Len(logged) : logged[i] = "experience"

\* C1: after n POST /experiences calls and no other log-writing operation,
\* GET /experiences answers 200 with exactly the min(n, 50) most recently
\* posted records, newest first, and POST /experiences answers 200 too.
C1_ListNewestFirst ==
    OnlyPosts =>
        /\ response.op = "log_experience" => response.status = 200
        /\ response.op = "list_experiences" =>
              /\ response.status = 200
              /\ Len(response.items) = Min(Len(logged), experience_log_max)
              /\ \A k \in 1..Len(response.items) :
                    response.items[k] = Len(logged) - k + 1

C1_Witness ==
    /\ OnlyPosts
    /\ response.op = "list_experiences"
    /\ Len(logged) > experience_log_max
    /\ Len(response.items) = experience_log_max

\* the number of the operation that wrote a record (the seed cards are
\* written together, before every request)
OpOf(r) == IF TypeOf(r) = "seed" THEN 0 ELSE r

\* C2: GET /experiences lists the records most-recent-first: a record
\* written by a later operation appears before one written by an earlier one.
C2_MostRecentFirst ==
    (response.op = "list_experiences" /\ \A i \in 1..Len(logged) : logged[i] # "seed") =>
        \A i, j \in 1..Len(response.items) :
            i < j => OpOf(response.items[i]) >= OpOf(response.items[j])

\* C3: every record added to the experience log is also put on the
\* broadcast queue exactly once.
C3_LoggedEnqueuedOnce ==
    \A i \in 1..Len(logged) :
        Cardinality({j \in 1..Len(enqueued) : enqueued[j] = i}) = 1

RecordIds == 1..MaxStreamOps

InQueue(i) == \E k \in 1..Len(experience_queue) : experience_queue[k] = i

DeliveredTo(i, c) ==
    \E k \in 1..Len(emitted) :
        emitted[k].client = c /\ EventData(emitted[k].event) = i

\* the records the events yielded so far carry, in order
EmittedRecords == [k \in 1..Len(emitted) |-> EventData(emitted[k].event)]


IsPrefix(a, b) == Len(a) <= Len(b) /\ SubSeq(b, 1, Len(a)) = a

C5_OnlyRecordsAfterConnect ==
    \A k \in 1..Len(emitted) : EventData(emitted[k].event) > emitted[k].since

\* C5 amended: the stream has no replay: every record put on the queue is
\* emitted at most once over all clients, never again to a client that
\* connects later; a record put on the queue while no client was connected
\* stays there until a client that connects later takes it.
C5_NoReplayButBuffered ==
    /\ \A j, k \in 1..Len(emitted) :
          j # k => EventData(emitted[j].event) # EventData(emitted[k].event)
    /\ enqueued = EmittedRecords \o experience_queue

C5_Witness ==
    /\ clients = {}
    /\ experience_queue # <<>>
    /\ \E k \in 1..Len(emitted) :
          /\ emitted[k].since > 0
          /\ EventData(emitted[k].event) <= emitted[k].since

\* C6: POST /experiences answers {ok: true, stored: <log length>} for every
\* body, also when the dashboard call fails, and the new record is then at
\* the head of the log.
C6_PostAlwaysStored ==
    response.op = "log_experience" =>
        /\ response.status = 200
        /\ response.ok
        /\ response.stored = Len(experience_log)
        /\ experience_log[1] = Len(logged)

C6_Witness ==
    /\ response.op = "log_experience"
    /\ outbound # <<>>
    /\ outbound[1].result.raised
    /\ response.stored = experience_log_max
    /\ Len(logged) > experience_log_max

\* C7: GET /ready called while the manifest lists no display reports
\* ready = true with checks.displays >= 1, and leaves a manifest in the
\* capability client whose display count is >= 1.
C7_ReadyInjectsFallback ==
    (response.op = "ready" /\ modality_count(request.manifest, "displays") = 0) =>
        /\ response.ready
        /\ response.checks.displays >= 1
        /\ modality_count(manifest, "displays") >= 1

C7_Witness ==
    /\ response.op = "ready"
    /\ ManifestTruthy(request.manifest)
    /\ modality_count(request.manifest, "displays") = 0
    /\ manifest = FallbackManifest

\* C8 as stated: GET /capabilities fails with 503 exactly when no manifest
\* has ever been loaded from the capability source.
C8_UnavailableUntilLoaded ==
    response.op = "get_capabilities" => (response.status = 503 <=> ~everLoaded)

\* C8 amended: GET /capabilities fails with 503 exactly when no manifest has
\* been loaded and GET /ready has not installed the synthetic manifest;
\* otherwise it returns the client's manifest and its display count.
C8_UnavailableUntilLoadedOrFallback ==
    response.op = "get_capabilities" =>
        /\ response.status = 503 <=> (~everLoaded /\ ~fallbackInjected)
        /\ response.status # 503 =>
              /\ response.status = 200
              /\ response.manifest = manifest
              /\ response.displays = modality_count(manifest, "displays")

C8_Witness ==
    /\ response.op = "get_capabilities"
    /\ response.status = 200
    /\ ~everLoaded
    /\ response.manifest = FallbackManifest

\* C9: POST /speech/stt whose audio is missing, null, not a string or the
\* empty string fails with 400 and makes no outbound call.
C9_BadAudioRejected ==
    (/\ response.op = "proxy_speech_stt"
     /\ \/ request.audio.t \in {"absent", "null"}
        \/ request.audio.t # "str"
        \/ request.audio = Str("")) =>
        /\ response.status = 400
        /\ outbound = <<>>

C9_Witness ==
    /\ response.op = "proxy_speech_stt"
    /\ request.audio = Num(42)
    /\ response.status = 400

ValidStt == response.op = "proxy_speech_stt" /\ response.status # 400

Missing(x) == x.t \in {"absent", "null"}

\* C10 as stated: the upstream request carries the caller's baton unchanged
\* (none when the caller sent none) and the supplied person_id and
\* session_id, defaulted when absent.
C10_BatonAndIdsForwarded ==
    ValidStt =>
        /\ Len(outbound) = 1
        /\ outbound[1].headers.baton = request.baton
        /\ outbound[1].json.person_id =
              IF Missing(request.person_id) THEN Str(default_person_id)
              ELSE request.person_id
        /\ outbound[1].json.session_id =
              IF Missing(request.session_id) THEN Str(DefaultSession)
              ELSE request.session_id

NonEmpty(x) == x.t = "str" /\ x.v # ""

\* C10 amended: the upstream request carries the caller's baton unchanged
\* when it is non-empty and no baton header when the caller sent none or an
\* empty one; it carries the supplied person_id and session_id when they are
\* non-empty, and the configured person identifier and 'default-session'
\* when they are absent, null or empty.
C10_NonEmptyBatonAndIdsForwarded ==
    ValidStt =>
        /\ Len(outbound) = 1
        /\ outbound[1].headers.baton =
              IF NonEmpty(request.baton) THEN request.baton ELSE Absent
        /\ outbound[1].json.person_id =
              IF NonEmpty(request.person_id) THEN request.person_id
              ELSE Str(default_person_id)
        /\ outbound[1].json.session_id =
              IF NonEmpty(request.session_id) THEN request.session_id
              ELSE Str(DefaultSession)

C10_Witness ==
    /\ ValidStt
    /\ request.baton = Str("baton-123")
    /\ outbound[1].headers.baton = Str("baton-123")
    /\ outbound[1].json.person_id = Str("p1")
    /\ outbound[1].json.session_id = Str("s1")

\* C11: POST /speech/stt with valid audio makes exactly one outbound call;
\* when that call raises or answers a non-success status the request fails
\* with 502, and on success the upstream body is the response body.
C11_OneCallNoRetry ==
    ValidStt =>
        /\ Len(outbound) = 1
        /\ outbound[1].method = "POST" /\ outbound[1].service = "speech"
        /\ (outbound[1].result.raised \/ outbound[1].result.status # 200)
              => response.status = 502
        /\ (~outbound[1].result.raised /\ outbound[1].result.status = 200)
              => /\ response.status = 200
                 /\ response.body = outbound[1].result.body

C11_Witness ==
    /\ ValidStt
    /\ Len(outbound) = 1
    /\ ~outbound[1].result.raised
    /\ outbound[1].result.status = 500
    /\ response.status = 502

\* the value found under key in x, None when x is no dict or has no such key
At(x, key) == IF x.t = "dict" /\ key \in DOMAIN x.v THEN x.v[key] ELSE Null

\* voice.wakeword of the profile the context service answered with status
\* 200, None when there is no such value
UpstreamWakeword(up) ==
    IF up.raised \/ up.status # 200 \/ ~up.json_ok THEN Null
    ELSE At(At(At(up.body, "profile"), "voice"), "wakeword")

\* C12 as stated: GET /wakeword answers 200 with {wakeword, person_id};
\* wakeword is exactly the upstream voice.wakeword when the upstream answered
\* 200 with a non-empty string there, and the default phrase otherwise.
C12_ExactUpstreamOrDefault ==
    response.op = "get_wakeword" =>
        /\ response.status = 200
        /\ Truthy(response.person_id)
        /\ LET w == UpstreamWakeword(outbound[1].result)
           IN response.wakeword =
                 IF w.t = "text" /\ Len(w.v) > 0 THEN w.v ELSE wakeword_default

HasVisible(chars) == \E k \in 1..Len(chars) : chars[k] \notin Whitespace

\* t is chars without its leading and trailing whitespace
IsTrimOf(t, chars) ==
    \E i \in 1..Len(chars), j \in 1..Len(chars) :
        /\ i <= j
        /\ t = SubSeq(chars, i, j)
        /\ chars[i] \notin Whitespace /\ chars[j] \notin Whitespace
        /\ \A k \in 1..Len(chars) : (k < i \/ k > j) => chars[k] \in Whitespace

\* C12 amended: GET /wakeword answers 200 with {wakeword, person_id};
\* wakeword is the upstream voice.wakeword without its leading and trailing
\* whitespace when the upstream answered 200 with a string there that has a
\* non-whitespace character, and the default phrase otherwise.
C12_TrimmedUpstreamOrDefault ==
    response.op = "get_wakeword" =>
        /\ response.status = 200
        /\ Truthy(response.person_id)
        /\ LET w == UpstreamWakeword(outbound[1].result)
           IN IF w.t = "text" /\ HasVisible(w.v)
              THEN IsTrimOf(response.wakeword, w.v)
              ELSE response.wakeword = wakeword_default

C12_Witness ==
    /\ response.op = "get_wakeword"
    /\ response.status = 200
    /\ UpstreamWakeword(outbound[1].result) = Text(<<" ", "h", "u">>)
    /\ response.wakeword = <<"h", "u">>

\* the records of a log
Records(log) == {log[k] : k \in 1..Len(log)}

\* C13: GET /payments/transactions/{id} adds exactly one payment_status
\* record to the experience log when the upstream call succeeds; when the
\* upstream call raises or answers a non-200 status the log is left
\* unchanged and the request fails with an error status.
C13_RecordOnSuccessOnly ==
    [][response'.op = "get_payment_status" =>
          LET up == outbound'[1].result
          IN /\ (~up.raised /\ up.status = 200 /\ up.body = "dict") =>
                   /\ Records(experience_log') \ Records(experience_log)
                         = {Created + 1}
                   /\ logged' = Append(logged, "payment_status")
             /\ (up.raised \/ up.status # 200) =>
                   /\ experience_log' = experience_log
                   /\ logged' = logged
                   /\ response'.status >= 400]_vars

\* the record of a non-empty log that was written earliest
Oldest(log) == CHOOSE r \in Records(log) : \A q \in Records(log) : r <= q

NoSeed == \A i \in 1..Len(logged) : logged[i] # "seed"

\* C19: whenever POST /experiences, POST /payments/approvals or a successful
\* GET /payments/transactions/{id} discards a record of the log, it discards
\* a single record, the one written earliest.
C19_OldestDiscarded ==
    [][(NoSeed /\ Records(experience_log) \ Records(experience_log') # {}) =>
          Records(experience_log) \ Records(experience_log')
             = {Oldest(experience_log)}]_vars

\* C20: once an operation has returned, the experience log holds at most 50
\* records.
C20_LogBounded == Len(experience_log) <= experience_log_max

C20_Witness ==
    /\ Created > experience_log_max
    /\ Len(experience_log) = experience_log_max
    /\ response.op \in {"record_payment_approval", "get_payment_status"}
    /\ response.status = 200

\* C14: a recording during which a frame above the start threshold was
\* analysed goes on while the run of silent frames analysed since is shorter
\* than the silence bound, and is ended by silence on the frame that makes
\* the run reach the bound (maxSilenceMs at frameMs per frame): not on an
\* earlier frame, not on a later one.  A recorder stops once.
C14_SilenceStopOnBoundFrame ==
    /\ (mic.mediaRecorder = "recording" /\ hist.loudSeen) =>
          hist.silentRun * FrameMs < MaxSilenceMs
    /\ (hist.stopCause = "silence" /\ hist.stopLoud) =>
          /\ hist.stopRun * FrameMs >= MaxSilenceMs
          /\ (hist.stopRun - 1) * FrameMs < MaxSilenceMs

C14_Witness ==
    /\ hist.event = "frame"
    /\ hist.stopCause = "silence" /\ hist.stopLoud
    /\ hist.stopRun = 8
    /\ mic.mediaRecorder = "inactive"
    /\ mic.vadActive

\* the calls of sendAudioBlob that carry audio of recording r
SubmissionsOf(r) ==
    {k \in 1..Len(mic.submitted) : r \in Records(mic.submitted[k].chunks)}

\* C15: when a recording was ended by the silence bound and its recorder has
\* stopped, the audio captured during it has been submitted exactly once and
\* no recorder is active.
C15_SubmittedOnceAfterSilence ==
    (/\ hist.event = "recorder_stopped"
     /\ hist.stopCause = "silence"
     /\ mic.recording \notin hist.stopMicOn) =>
        /\ mic.mediaRecorder = "null"
        /\ Cardinality(SubmissionsOf(mic.recording)) = 1

\* C16: no call of sendAudioBlob is made for a recorder that was in flight
\* when Stop Mic was pressed.
C16_StoppedRecordingDiscarded ==
    \A k \in 1..Len(mic.submitted) :
        mic.submitted[k].recording \notin hist.stopMicOn

C16_Witness ==
    /\ hist.event = "recorder_stopped"
    /\ hist.stopCause = "stopMic"
    /\ mic.recording \in hist.stopMicOn
    /\ mic.mediaRecorder = "null"
    /\ mic.submitted = <<>>

\* C17: when Stop Mic has returned no microphone stream acquired by the page
\* is open, and the page never holds more than one open stream.
C17_NoStreamAfterStop ==
    /\ hist.event = "stopMic" => mic.open = {}
    /\ Cardinality(mic.open) <= 1

PlayedClips == {player.played[i] : i \in 1..Len(player.played)}

\* C18: playback is a FIFO without loss: every clip that arrives is
\* eventually played; as long as the user leaves the controls alone the clips
\* played are played once each, in arrival order; and no clip is cut off by
\* the arrival of a record while it plays.
C18_PlayedOnceInOrder ==
    /\ \A k \in 1..MaxClips :
          (player.arrived >= k /\ ~player.touched)
             ~> (k \in PlayedClips \/ player.touched)
    /\ [](~player.touched =>
             \A i, j \in 1..Len(player.played) :
                i < j => player.played[i] < player.played[j])
    /\ [](player.interrupted = {})

\* C22: GET /ready answers ready = true, whatever the manifest and
\* last_error are.
C22_AlwaysReady ==
    response.op = "ready" => (response.status = 200 /\ response.ready = TRUE)

C22_Witness ==
    /\ response.op = "ready"
    /\ response.ready = TRUE
    /\ modality_count(request.manifest, "displays") > 0
    /\ response.checks.last_error = "fetch failed"

\* C23: a recording started by a wake-word match is ended by silence only
\* when a full silence bound of consecutive silent frames has been analysed
\* since it started.
C23_WakeRecordingFullSilence ==
    (hist.stopCause = "silence" /\ hist.stopByWake) =>
        hist.stopRun * FrameMs >= MaxSilenceMs

AllIdle == \A t \in 1..NumThreads : threads[t] = IdleThread

\* C21: under any interleaving of the handlers, GET /experiences answers at
\* most 50 items, each record at most once, and when no request is being
\* served the log holds every record up to the cap.
C21_UpdatesSerialized ==
    /\ response.op = "list_experiences" =>
          /\ Len(response.items) <= experience_log_max
          /\ Cardinality(Records(response.items)) = Len(response.items)
    /\ AllIdle => Len(experience_log) = Min(Created, experience_log_max)

====
